---------------------------- MODULE Spec2Model ----------------------------
(***************************************************************************)
(* Kiwi Ledger: the spreadsheet-backed ledger service (getLedgerData,      *)
(* addLedgerEntry), the route's loader and action, and the summary the     *)
(* LedgerPage component derives from the loaded entries.                   *)
(*                                                                         *)
(* Representation.  A JavaScript string is a sequence of one-character     *)
(* strings; the value undefined is the one-element sequence Undefined,     *)
(* which no string equals.  A JavaScript number is a record: NaN, an       *)
(* infinity, or a finite value counted in hundredths (cents), so that the  *)
(* sums of the currency strings of the model are exact.  A Date is its     *)
(* time value in hours since 1 Jan 1970 UTC, or invalid.                   *)
(***************************************************************************)
EXTENDS Integers, Sequences, FiniteSets, TLC

VARIABLES
    tz,          \* the server's UTC offset in hours (process environment)
    sheet,       \* the rows of Sheet1!A:D, header row first
    source,      \* how the source answered the last call made to it
    pc,          \* where the request cycle stands
    request,     \* the form data of the last POST
    actionData,  \* what action() returned for it
    loaderData,  \* what loader() last returned
    page,        \* what LedgerPage last derived from loaderData
    console      \* console.warn / console.error calls of the last handler

vars == <<tz, sheet, source, pc, request, actionData, loaderData, page, console>>

-----------------------------------------------------------------------------
(* Bounds of the model *)

MaxRows == 3

-----------------------------------------------------------------------------
(* JavaScript values *)

Undefined == <<"undefined">>

Digit == {"0", "1", "2", "3", "4", "5", "6", "7", "8", "9"}

DigitVal(c) ==
    CASE c = "0" -> 0 [] c = "1" -> 1 [] c = "2" -> 2 [] c = "3" -> 3
      [] c = "4" -> 4 [] c = "5" -> 5 [] c = "6" -> 6 [] c = "7" -> 7
      [] c = "8" -> 8 [] c = "9" -> 9

DigitChar(n) ==
    CASE n = 0 -> "0" [] n = 1 -> "1" [] n = 2 -> "2" [] n = 3 -> "3"
      [] n = 4 -> "4" [] n = 5 -> "5" [] n = 6 -> "6" [] n = 7 -> "7"
      [] n = 8 -> "8" [] n = 9 -> "9"

\* The number of leading digits of s from position i on, at most n of them.
RECURSIVE DigitRun(_, _, _)
DigitRun(s, i, n) ==
    IF n = 0 \/ i > Len(s) \/ s[i] \notin Digit THEN 0
    ELSE 1 + DigitRun(s, i + 1, n - 1)

\* The value of the digits s[i .. j].
RECURSIVE DigitsValue(_, _, _)
DigitsValue(s, i, j) ==
    IF j < i THEN 0 ELSE 10 * DigitsValue(s, i, j - 1) + DigitVal(s[j])

\* Number.prototype.toString of a non-negative integer.
RECURSIVE IntToChars(_)
IntToChars(n) ==
    IF n < 10 THEN <<DigitChar(n)>>
    ELSE Append(IntToChars(n \div 10), DigitChar(n % 10))

NaN == [kind |-> "NaN", v |-> 0]
Fin(v) == [kind |-> "finite", v |-> v]
Infinity(sign) == [kind |-> "Infinity", v |-> sign]

\* a + b
Plus(a, b) ==
    CASE a.kind = "NaN" \/ b.kind = "NaN" -> NaN
      [] a.kind = "finite" /\ b.kind = "finite" -> Fin(a.v + b.v)
      [] a.kind = "Infinity" /\ b.kind = "Infinity" ->
            IF a.v = b.v THEN a ELSE NaN
      [] a.kind = "Infinity" -> a
      [] OTHER -> b

\* x ?? d: d only for null and undefined, which no number is.
NullishOr(x, d) == x

\* x || d: d when x is falsy, that is NaN or zero.
FalsyOr(x, d) ==
    IF x.kind = "NaN" \/ (x.kind = "finite" /\ x.v = 0) THEN d ELSE x

-----------------------------------------------------------------------------
(* Amounts *)

\* amount.replace(/[$,]/g, "")
RECURSIVE StripCurrency(_)
StripCurrency(s) ==
    IF s = <<>> THEN <<>>
    ELSE IF Head(s) \in {"$", ","} THEN StripCurrency(Tail(s))
    ELSE <<Head(s)>> \o StripCurrency(Tail(s))

RECURSIVE SkipSpaces(_)
SkipSpaces(s) ==
    IF s # <<>> /\ Head(s) = " " THEN SkipSpaces(Tail(s)) ELSE s

\* The first two fraction digits s[i], s[i+1] among k of them, in hundredths.
Hundredths(s, i, k) ==
    (IF k >= 1 THEN 10 * DigitVal(s[i]) ELSE 0)
        + (IF k >= 2 THEN DigitVal(s[i + 1]) ELSE 0)

\* The decimal literal with n integer digits and k fraction digits at the
\* head of s, in hundredths; NaN when it holds no digit.
DecimalValue(s, n, k) ==
    IF n = 0 /\ k = 0 THEN NaN
    ELSE Fin(100 * DigitsValue(s, 1, n) + Hundredths(s, n + 2, k))

\* The number of fraction digits after the n integer digits of s.
FractionRun(s, n) ==
    IF n + 1 <= Len(s) /\ s[n + 1] = "." THEN DigitRun(s, n + 2, Len(s)) ELSE 0

IntegerRun(s) == DigitRun(s, 1, Len(s))

\* parseFloat of an unsigned prefix: digits, then "." and digits.
ParseUnsigned(s) == DecimalValue(s, IntegerRun(s), FractionRun(s, IntegerRun(s)))

Negate(u) == IF u.kind = "finite" THEN Fin(0 - u.v) ELSE u

ParseSigned(s) ==
    IF s # <<>> /\ Head(s) = "-" THEN Negate(ParseUnsigned(Tail(s)))
    ELSE IF s # <<>> /\ Head(s) = "+" THEN ParseUnsigned(Tail(s))
    ELSE ParseUnsigned(s)

\* parseFloat: leading white space skipped, an optional sign, then the
\* longest prefix that is a decimal literal; what follows it is ignored.
parseFloat(str) == ParseSigned(SkipSpaces(str))

formattedAmountToNumber(amount) == parseFloat(StripCurrency(amount))

-----------------------------------------------------------------------------
(* Dates *)

IsLeapYear(y) == (y % 4 = 0 /\ y % 100 # 0) \/ y % 400 = 0

DaysInMonth(y, m) ==
    IF m = 2 THEN (IF IsLeapYear(y) THEN 29 ELSE 28)
    ELSE IF m \in {4, 6, 9, 11} THEN 30 ELSE 31

\* Days from 1 Jan 1970 to the civil date y-m-d of the proleptic Gregorian
\* calendar; d beyond the month's end runs over into the next month.
DaysFromCivil(y, m, d) ==
    LET yy == IF m <= 2 THEN y - 1 ELSE y
        era == yy \div 400
        yoe == yy - era * 400
        mp == IF m > 2 THEN m - 3 ELSE m + 9
        doy == (153 * mp + 2) \div 5 + d - 1
        doe == yoe * 365 + yoe \div 4 - yoe \div 100 + doy
    IN  era * 146097 + doe - 719468

\* The civil date of day number z.
CivilFromDays(z) ==
    LET zz == z + 719468
        era == zz \div 146097
        doe == zz - era * 146097
        yoe == (doe - doe \div 1460 + doe \div 36524 - doe \div 146096) \div 365
        doy == doe - (365 * yoe + yoe \div 4 - yoe \div 100)
        mp == (5 * doy + 2) \div 153
        m == IF mp < 10 THEN mp + 3 ELSE mp - 9
    IN  [year |-> yoe + era * 400 + (IF m <= 2 THEN 1 ELSE 0),
         month |-> m,
         day |-> doy - (153 * mp + 2) \div 5 + 1]

InvalidDate == [valid |-> FALSE, time |-> 0]
DateAt(hours) == [valid |-> TRUE, time |-> hours]

\* The calendar date of a Date in the server's time zone.
LocalDate(date) == CivilFromDays((date.time + tz) \div 24)

\* Midnight, server time, of a calendar date.
LocalMidnight(y, m, d) == DateAt(24 * DaysFromCivil(y, m, d) - tz)

MonthAbbr ==
    << <<"J","a","n">>, <<"F","e","b">>, <<"M","a","r">>, <<"A","p","r">>,
       <<"M","a","y">>, <<"J","u","n">>, <<"J","u","l">>, <<"A","u","g">>,
       <<"S","e","p">>, <<"O","c","t">>, <<"N","o","v">>, <<"D","e","c">> >>

\* The month whose abbreviation is s[i .. i+2], 0 when there is none.
MonthAt(s, i) ==
    IF i + 2 <= Len(s) /\ \E m \in 1..12 : MonthAbbr[m] = SubSeq(s, i, i + 2)
    THEN CHOOSE m \in 1..12 : MonthAbbr[m] = SubSeq(s, i, i + 2)
    ELSE 0

\* The date of day d, month m, year y when there is such a day.
CheckedDate(y, m, d) ==
    IF y >= 1 /\ d >= 1 /\ d <= DaysInMonth(y, m)
    THEN LocalMidnight(y, m, d)
    ELSE InvalidDate

\* s with nd day digits, month m (0: none) and ny year digits found.
ParsedDate(s, nd, m, ny) ==
    IF /\ nd >= 1
       /\ Len(s) = nd + 5 + ny
       /\ s[nd + 1] = " "
       /\ m # 0
       /\ s[nd + 5] = " "
       /\ ny >= 1
    THEN CheckedDate(DigitsValue(s, nd + 6, nd + 5 + ny), m, DigitsValue(s, 1, nd))
    ELSE InvalidDate

ParseAfterDay(s, nd) ==
    ParsedDate(s, nd, MonthAt(s, nd + 2), DigitRun(s, nd + 6, 4))

\* date-fns parse(dateStr, "d MMM yyyy", new Date()): one or two digits, a
\* space, a month abbreviation, a space, one to four digits, and nothing
\* more; the day must exist in that month of that year.
parseDate(dateStr) == ParseAfterDay(dateStr, DigitRun(dateStr, 1, 2))

\* The year as yyyy: at least four digits.
PadYear(y) == [i \in 1..(4 - Len(IntToChars(y))) |-> "0"] \o IntToChars(y)

\* date-fns format(date, "d MMM yyyy"), which throws a RangeError on an
\* invalid Date.
FormatCivil(c) ==
    IntToChars(c.day) \o <<" ">> \o MonthAbbr[c.month] \o <<" ">> \o PadYear(c.year)

format(date) ==
    IF ~date.valid
    THEN [threw |-> TRUE, value |-> <<>>, message |-> "Invalid time value"]
    ELSE [threw |-> FALSE, value |-> FormatCivil(LocalDate(date)), message |-> ""]

\* new Date(date) of the value of an <input type="date">: yyyy-mm-dd is
\* midnight UTC of that day; anything else of the model's inputs is invalid.
UtcMidnight(y, m, d) ==
    IF m \in 1..12 /\ d \in 1..31 THEN DateAt(24 * DaysFromCivil(y, m, d))
    ELSE InvalidDate

NewDate(date) ==
    IF /\ Len(date) = 10
       /\ DigitRun(date, 1, 4) = 4 /\ date[5] = "-"
       /\ DigitRun(date, 6, 2) = 2 /\ date[8] = "-"
       /\ DigitRun(date, 9, 2) = 2
    THEN UtcMidnight(DigitsValue(date, 1, 4), DigitsValue(date, 6, 7),
                     DigitsValue(date, 9, 10))
    ELSE InvalidDate

-----------------------------------------------------------------------------
(* googleSheetsService: the schema *)

\* z.string().min(1, message): undefined is no string ("Required").
StringIssues(v, message) ==
    IF v = Undefined THEN <<"Required">>
    ELSE IF Len(v) < 1 THEN <<message>>
    ELSE <<>>

\* The Date field: the transform runs only on a string that passed min(1).
DateIssues(v) ==
    IF v = Undefined THEN <<"Required">>
    ELSE IF Len(v) < 1 THEN <<"Date cannot be empty">>
    ELSE IF ~parseDate(v).valid THEN <<"Invalid date">>
    ELSE <<>>

\* The issues of each field of entryData; Notes is optional and any string.
FieldIssues(entryData) ==
    [Date |-> DateIssues(entryData.Date),
     Amount |-> StringIssues(entryData.Amount, "Amount cannot be empty"),
     Who |-> StringIssues(entryData.Who, "Who cannot be empty"),
     Notes |-> <<>>]

Failing(issues) == {f \in DOMAIN issues : issues[f] # <<>>}

\* error.flatten(): fieldErrors has one key for each field with issues.
Flatten(issues) ==
    [formErrors |-> <<>>, fieldErrors |-> [f \in Failing(issues) |-> issues[f]]]

SafeParseResult(entryData, issues) ==
    IF Failing(issues) = {}
    THEN [success |-> TRUE,
          data |-> [Date |-> parseDate(entryData.Date),
                    Amount |-> entryData.Amount,
                    Who |-> entryData.Who,
                    Notes |-> entryData.Notes],
          error |-> [formErrors |-> <<>>, fieldErrors |-> <<>>]]
    ELSE [success |-> FALSE, data |-> <<>>, error |-> Flatten(issues)]

\* LedgerEntrySchema.safeParse(entryData), the error already flattened.
LedgerEntrySchema(entryData) == SafeParseResult(entryData, FieldIssues(entryData))

-----------------------------------------------------------------------------
(* The spreadsheet behind RANGE *)

\* row[i], counted from 0: undefined beyond the row's end.
Cell(row, i) == IF i + 1 <= Len(row) THEN row[i + 1] ELSE Undefined

RECURSIVE TrimRow(_)
TrimRow(row) ==
    IF row # <<>> /\ row[Len(row)] = <<>>
    THEN TrimRow(SubSeq(row, 1, Len(row) - 1))
    ELSE row

RECURSIVE TrimRows(_)
TrimRows(rows) ==
    IF rows # <<>> /\ rows[Len(rows)] = <<>>
    THEN TrimRows(SubSeq(rows, 1, Len(rows) - 1))
    ELSE rows

\* spreadsheets.values.get: the rows of the range, empty trailing cells and
\* empty trailing rows left out (no rows at all: values is absent).
valuesGet(rows) == TrimRows([i \in 1..Len(rows) |-> TrimRow(rows[i])])

\* spreadsheets.values.append: the row goes below the last row of the table.
valuesAppend(rows, values) == rows \o values

\* How the source fails: with an API error response, or with any other
\* Error (no key file, no network, a response without data).
SourceFailures == {"ApiError", "Network"}
SourceOutcomes == {"ok"} \union SourceFailures

\* What the catch block appends to its message for each failure.
FailureDetail(outcome) ==
    CASE outcome = "ApiError" -> "Google API Error: <error.response.data.error.message>"
      [] outcome = "Network" -> "<error.message>"

-----------------------------------------------------------------------------
(* googleSheetsService: getLedgerData and addLedgerEntry *)

EntryData(row) ==
    [Date |-> Cell(row, 0), Amount |-> Cell(row, 1),
     Who |-> Cell(row, 2), Notes |-> Cell(row, 3)]

\* Pushed, with one RowError pushed for each failing field.
PushedPerField(acc, entryData, parseResult, index) ==
    IF parseResult.success
    THEN [acc EXCEPT !.parsedEntries = Append(@, parseResult.data)]
    ELSE [acc EXCEPT !.parsingErrors =
             @ \o [k \in 1..Cardinality(DOMAIN parseResult.error.fieldErrors) |->
                      [rowIndex |-> index + 1,
                       rowData |-> entryData,
                       errors |-> parseResult.error]]]

\* Pushed, with unshift in place of push for the entries.
PushedInFront(acc, entryData, parseResult, index) ==
    IF parseResult.success
    THEN [acc EXCEPT !.parsedEntries = <<parseResult.data>> \o @]
    ELSE [acc EXCEPT !.parsingErrors =
             Append(@, [rowIndex |-> index + 1,
                        rowData |-> entryData,
                        errors |-> parseResult.error])]

Pushed(acc, entryData, parseResult, index) ==
    IF parseResult.success
    THEN [acc EXCEPT !.parsedEntries = Append(@, parseResult.data)]
    ELSE [acc EXCEPT !.parsingErrors =
             Append(@, [rowIndex |-> index + 1,
                        rowData |-> entryData,
                        errors |-> parseResult.error])]

\* One pass of dataRows.forEach: row `index` (from 0) is parsed and pushed
\* to parsedEntries or to parsingErrors.
PushRow(acc, row, index) ==
    Pushed(acc, EntryData(row), LedgerEntrySchema(EntryData(row)), index)

RECURSIVE ForEachRow(_, _, _)
ForEachRow(dataRows, index, acc) ==
    IF index >= Len(dataRows) THEN acc
    ELSE ForEachRow(dataRows, index + 1,
                    PushRow(acc, dataRows[index + 1], index))

\* The try block of getLedgerData on the rows the source answered with.
ParseRows(rows) ==
    IF Len(rows) > 0
    THEN ForEachRow(Tail(rows), 0, [parsedEntries |-> <<>>, parsingErrors |-> <<>>])
    ELSE [parsedEntries |-> <<>>, parsingErrors |-> <<>>]

\* The catch block: it logs, and throws an Error with its own message.
Thrown(text, prefix, detail) ==
    [threw |-> TRUE,
     value |-> <<>>,
     message |-> <<prefix, detail>>,
     console |-> <<[level |-> "error", text |-> text, data |-> <<detail>>]>>]

\* Returned, had the rows been parsed with parse() in place of safeParse():
\* the first invalid row throws.
ReturnedOrThrown(r) ==
    IF Len(r.parsingErrors) > 0
    THEN Thrown("Error fetching data from Google Sheets:",
                "Failed to fetch data from Google Sheets. ", "ZodError")
    ELSE [threw |-> FALSE, value |-> r.parsedEntries, message |-> <<>>,
          console |-> <<>>]

\* Returned, without the console.warn.
ReturnedSilently(r) ==
    [threw |-> FALSE, value |-> r.parsedEntries, message |-> <<>>,
     console |-> <<>>]

\* What getLedgerData returns and logs once the rows are parsed.
Returned(r) ==
    [threw |-> FALSE,
     value |-> r.parsedEntries,
     message |-> <<>>,
     console |->
         IF Len(r.parsingErrors) > 0
         THEN <<[level |-> "warn",
                 text |-> "Errors encountered while parsing Google Sheet data:",
                 data |-> r.parsingErrors]>>
         ELSE <<>>]

\* getLedgerData(): the entries, or a thrown Error; with what it logged.
getLedgerData(rows, outcome) ==
    IF outcome = "ok"
    THEN Returned(ParseRows(valuesGet(rows)))
    ELSE Thrown("Error fetching data from Google Sheets:",
                "Failed to fetch data from Google Sheets. ",
                FailureDetail(outcome))

\* addLedgerEntry, were the row written before the failure is met.
addLedgerEntryWrittenFirst(rows, outcome, date, amount, who, notes) ==
    IF outcome = "ok"
    THEN [threw |-> FALSE,
          value |-> valuesAppend(rows,
                        << <<date, amount, who,
                             IF notes = Undefined \/ notes = <<>> THEN <<>> ELSE notes>> >>),
          message |-> <<>>,
          console |-> <<>>]
    ELSE [Thrown("Error adding data to Google Sheets:",
                 "Failed to add data to Google Sheets. ",
                 FailureDetail(outcome))
             EXCEPT !.value = valuesAppend(rows, << <<date, amount, who, notes>> >>)]

\* addLedgerEntry(date, amount, who, notes): value is the table afterwards,
\* which a thrown Error leaves as it was.
addLedgerEntry(rows, outcome, date, amount, who, notes) ==
    IF outcome = "ok"
    THEN [threw |-> FALSE,
          value |-> valuesAppend(rows,
                        << <<date, amount, who,
                             IF notes = Undefined \/ notes = <<>> THEN <<>> ELSE notes>> >>),
          message |-> <<>>,
          console |-> <<>>]
    ELSE [Thrown("Error adding data to Google Sheets:",
                 "Failed to add data to Google Sheets. ",
                 FailureDetail(outcome)) EXCEPT !.value = rows]

-----------------------------------------------------------------------------
(* routes/LedgerPage: loader and action *)

NoError == <<>>

\* The catch block of a route handler: it logs the error.
Caught(text, r) ==
    r.console \o <<[level |-> "error", text |-> text, data |-> r.message]>>

LoaderReturn(r) ==
    IF ~r.threw
    THEN [data |-> [ledgerData |-> r.value, error |-> NoError],
          console |-> r.console]
    ELSE [data |-> [ledgerData |-> <<>>, error |-> r.message],
          console |-> Caught("Error in ledger route loader:", r)]

\* loader(): { ledgerData } or { ledgerData: [], error }.
loader(rows, outcome) == LoaderReturn(getLedgerData(rows, outcome))

ActionReturn(r) ==
    IF r.threw
    THEN [data |-> [success |-> FALSE, error |-> r.message],
          rows |-> r.value,
          console |-> Caught("Error adding ledger entry:", r)]
    ELSE [data |-> [success |-> TRUE, error |-> NoError],
          rows |-> r.value,
          console |-> r.console]

\* format threw: nothing was sent to the source.
FormatThrew(rows, formattedDate) ==
    [threw |-> TRUE, value |-> rows, message |-> <<formattedDate.message>>,
     console |-> <<>>]

AddFormatted(rows, formData, outcome, formattedDate) ==
    IF formattedDate.threw THEN FormatThrew(rows, formattedDate)
    ELSE addLedgerEntry(rows, outcome, formattedDate.value,
                        formData.amount, formData.who, formData.notes)

\* action({ request }): { success: true } or { error }, and the table.
action(rows, formData, outcome) ==
    ActionReturn(AddFormatted(rows, formData, outcome,
                              format(NewDate(formData.date))))

-----------------------------------------------------------------------------
(* routes/LedgerPage: the summary *)

Tyler == <<"T","y","l","e","r">>
Melissa == <<"M","e","l","i","s","s","a">>

people == <<Tyler, Melissa>>

\* A Record<string, number> as its entries in insertion order.
HasKey(obj, k) == \E i \in 1..Len(obj) : obj[i].key = k

Get(obj, k) == obj[CHOOSE i \in 1..Len(obj) : obj[i].key = k].value

\* obj[k] = v: an own key keeps its place, a new one goes last.
Set(obj, k, v) ==
    IF HasKey(obj, k)
    THEN [i \in 1..Len(obj) |->
             IF obj[i].key = k THEN [key |-> k, value |-> v] ELSE obj[i]]
    ELSE Append(obj, [key |-> k, value |-> v])

includes(list, x) == \E i \in 1..Len(list) : list[i] = x

\* people.reduce((acc, person) => { acc[person] = 0; return acc }, {})
RECURSIVE ZeroTotals(_, _)
ZeroTotals(list, acc) ==
    IF list = <<>> THEN acc
    ELSE ZeroTotals(Tail(list), Set(acc, Head(list), Fin(0)))

\* The reducer of totals.
AddToTotals(acc, entry) ==
    IF entry.Who # <<>> /\ includes(people, entry.Who)
    THEN Set(acc, entry.Who,
             Plus(Get(acc, entry.Who),
                  NullishOr(formattedAmountToNumber(entry.Amount), Fin(0))))
    ELSE acc

RECURSIVE ReduceTotals(_, _)
ReduceTotals(ledgerData, acc) ==
    IF ledgerData = <<>> THEN acc
    ELSE ReduceTotals(Tail(ledgerData), AddToTotals(acc, Head(ledgerData)))

totals(ledgerData) == ReduceTotals(ledgerData, ZeroTotals(people, <<>>))

\* The reducer of totalAmount.
AddToTotalAmount(acc, entry) ==
    Plus(acc, FalsyOr(formattedAmountToNumber(entry.Amount), Fin(0)))

RECURSIVE ReduceTotalAmount(_, _)
ReduceTotalAmount(ledgerData, acc) ==
    IF ledgerData = <<>> THEN acc
    ELSE ReduceTotalAmount(Tail(ledgerData), AddToTotalAmount(acc, Head(ledgerData)))

totalAmount(ledgerData) == ReduceTotalAmount(ledgerData, Fin(0))

Abs(n) == IF n < 0 THEN 0 - n ELSE n
Sign(n) == IF n < 0 THEN 0 - 1 ELSE 1

\* x.toFixed(0) of the quotient n / d, d # 0: the nearest integer, the one
\* farther from zero of two equally near.
ToFixed0(n, d) ==
    Sign(n) * Sign(d) * ((2 * Abs(n) + Abs(d)) \div (2 * Abs(d)))

\* percentage, with a zero grand total answered by 0.
percentageOrZero(total, grand) ==
    CASE total.kind = "NaN" \/ grand.kind = "NaN" -> NaN
      [] grand.v = 0 -> Fin(0)
      [] OTHER -> Fin(100 * ToFixed0(100 * total.v, grand.v))

\* ((total / totalAmount) * 100).toFixed(0), as a number.
percentage(total, grand) ==
    CASE total.kind = "NaN" \/ grand.kind = "NaN" -> NaN
      [] total.kind = "Infinity" /\ grand.kind = "Infinity" -> NaN
      [] total.kind = "Infinity" ->
            Infinity(total.v * Sign(grand.v))
      [] grand.kind = "Infinity" -> Fin(0)
      [] grand.v = 0 /\ total.v = 0 -> NaN
      [] grand.v = 0 -> Infinity(Sign(total.v))
      [] OTHER -> Fin(100 * ToFixed0(100 * total.v, grand.v))

\* What LedgerPage derives from useLoaderData(): the totals, the grand
\* total and, when the summary table is rendered, each row's percentage.
Summary(data, t, g) ==
    [rendered |-> TRUE,
     table |-> Len(data.ledgerData) > 0,
     totals |-> t,
     totalAmount |-> g,
     percentages |->
         IF Len(data.ledgerData) > 0
         THEN [i \in 1..Len(t) |-> percentage(t[i].value, g)]
         ELSE <<>>,
     error |-> data.error]

LedgerPage(data) ==
    Summary(data, totals(data.ledgerData), totalAmount(data.ledgerData))

-----------------------------------------------------------------------------
(* The inputs of the model *)

D5Jan2024 == <<"5"," ","J","a","n"," ","2","0","2","4">>
D29Feb2024 == <<"2","9"," ","F","e","b"," ","2","0","2","4">>
D30Feb2024 == <<"3","0"," ","F","e","b"," ","2","0","2","4">>
Bob == <<"B","o","b">>
Rent == <<"r","e","n","t">>

Header ==
    << <<"D","a","t","e">>, <<"A","m","o","u","n","t">>, <<"W","h","o">>,
       <<"N","o","t","e","s">> >>

\* Data rows as values.get answers them: five that validate, one with no
\* cell at all, one with an empty date and an empty who, one whose date is
\* no day of the calendar.
RowChoices ==
    { <<D5Jan2024, <<"$","1","0",".","0","0">>, Tyler, Rent>>,
      <<D29Feb2024, <<"$","5",".","0","0">>, Melissa>>,
      <<D5Jan2024, <<"1",",","0","0","3">>, Bob>>,
      <<D5Jan2024, <<"a","b","c">>, Tyler>>,
      <<D29Feb2024, <<"-","5">>, Tyler>>,
      <<>>,
      << <<>>, <<"5">>, <<>>, Rent>>,
      <<D30Feb2024, <<"5">>, Melissa>> }

RECURSIVE SeqsUpTo(_, _)
SeqsUpTo(S, n) ==
    IF n = 0 THEN {<<>>}
    ELSE {<<>>} \union {Append(q, x) : q \in SeqsUpTo(S, n - 1), x \in S}

\* The tables of the model: nothing at all (not even a header), or the
\* header and at most MaxRows data rows.
Sheets == {<<>>} \union {<<Header>> \o q : q \in SeqsUpTo(RowChoices, MaxRows)}

\* UTC offsets of the server: Pacific Standard Time and UTC.
TimeZones == {0 - 8, 0}

\* The form's fields: date is the value of <input type="date">.
Requests ==
    { [date |-> <<"2","0","2","4","-","0","3","-","0","1">>,
       amount |-> <<"0">>, who |-> Tyler, notes |-> <<>>],
      [date |-> <<"2","0","2","4","-","0","1","-","0","5">>,
       amount |-> <<"a","b","c">>, who |-> Melissa, notes |-> Rent],
      [date |-> <<>>,
       amount |-> <<"5">>, who |-> Tyler, notes |-> <<>>] }

NoRequest == [date |-> <<>>, amount |-> <<>>, who |-> <<>>, notes |-> <<>>]
NoActionData == [success |-> FALSE, error |-> NoError]
NoLoaderData == [ledgerData |-> <<>>, error |-> NoError]
NoPage ==
    [rendered |-> FALSE, table |-> FALSE, totals |-> <<>>,
     totalAmount |-> Fin(0), percentages |-> <<>>, error |-> NoError]

-----------------------------------------------------------------------------
(* The request cycle *)

Init ==
    /\ tz \in TimeZones
    /\ sheet \in Sheets
    /\ source = "ok"
    /\ pc = "idle"
    /\ request = NoRequest
    /\ actionData = NoActionData
    /\ loaderData = NoLoaderData
    /\ page = NoPage
    /\ console = <<>>

\* The response of loader() reaches the router.
Loaded(r) ==
    /\ loaderData' = r.data
    /\ console' = r.console

\* The response of action() reaches the router; the table is what the
\* source now holds.
Acted(r) ==
    /\ actionData' = r.data
    /\ sheet' = r.rows
    /\ console' = r.console

\* A GET of the route, or the revalidation after a POST: loader() runs.
\* A GET starts a new document, with no action data and nothing rendered.
Loader ==
    /\ pc \in {"idle", "revalidate"}
    /\ \E outcome \in SourceOutcomes :
         /\ source' = outcome
         /\ Loaded(loader(sheet, outcome))
    /\ pc' = "render"
    /\ page' = NoPage
    /\ IF pc = "idle"
       THEN request' = NoRequest /\ actionData' = NoActionData
       ELSE UNCHANGED <<request, actionData>>
    /\ UNCHANGED <<tz, sheet>>

\* The component renders what the loader returned.
Render ==
    /\ pc = "render"
    /\ page' = LedgerPage(loaderData)
    /\ pc' = "idle"
    /\ UNCHANGED <<tz, sheet, source, request, actionData, loaderData, console>>

\* A POST of the form: action() runs, then the route revalidates.
Action ==
    /\ pc = "idle"
    /\ Len(sheet) <= MaxRows
    /\ \E formData \in Requests, outcome \in SourceOutcomes :
         /\ request' = formData
         /\ source' = IF NewDate(formData.date).valid THEN outcome ELSE source
         /\ Acted(action(sheet, formData, outcome))
    /\ pc' = "revalidate"
    /\ loaderData' = NoLoaderData
    /\ page' = NoPage
    /\ UNCHANGED tz

Next == Loader \/ Render \/ Action

Spec == Init /\ [][Next]_vars

-----------------------------------------------------------------------------
(* What the claims speak of *)

\* The handler that just returned is loader(), and the source answered.
ReadSucceeded == pc = "render" /\ source = "ok"

\* The data rows of a table: every row after the first.
DataRowsOf(rows) ==
    IF Len(valuesGet(rows)) > 0 THEN Tail(valuesGet(rows)) ELSE <<>>

RequiredColumns == {"Date", "Amount", "Who"}

ColumnOf(f) == CASE f = "Date" -> 0 [] f = "Amount" -> 1 [] f = "Who" -> 2

IsEmptyCell(row, f) == Cell(row, ColumnOf(f)) \in {Undefined, <<>>}

EmptyRequired(row) == {f \in RequiredColumns : IsEmptyCell(row, f)}

\* A row the schema accepts: no required cell empty, and a date that parses.
IsValidRow(row) == EmptyRequired(row) = {} /\ parseDate(row[1]).valid

ValidIndexes(rows) == {i \in 1..Len(rows) : IsValidRow(rows[i])}

\* The k-th valid row of rows, counted from 1.
KthValid(rows, k) ==
    CHOOSE i \in ValidIndexes(rows) :
        Cardinality({j \in ValidIndexes(rows) : j <= i}) = k

\* The RowErrors getLedgerData logged, none when it logged nothing.
LoggedRowErrors ==
    IF console # <<>> /\ console[1].level = "warn" THEN console[1].data ELSE <<>>

ErrorsOfRow(i) == {k \in 1..Len(LoggedRowErrors) : LoggedRowErrors[k].rowIndex = i}

\* The best-effort amount of an entry, in hundredths: 0 unless it parses
\* to a finite number.
BestEffort(entry) ==
    IF formattedAmountToNumber(entry.Amount).kind = "finite"
    THEN formattedAmountToNumber(entry.Amount).v
    ELSE 0

Parses(entry) == formattedAmountToNumber(entry.Amount).kind = "finite"

RECURSIVE SumWhere(_, _)
\* The sum of the best-effort amounts of the entries at the positions in I.
SumWhere(entries, I) ==
    IF I = {} THEN 0
    ELSE LET i == CHOOSE j \in I : TRUE
         IN  BestEffort(entries[i]) + SumWhere(entries, I \ {i})

EntriesOf(entries, who) == {i \in 1..Len(entries) : entries[i].Who = who}

Unmatched(entries) ==
    {i \in 1..Len(entries) : \A p \in 1..Len(people) : entries[i].Who # people[p]}

\* The entries whose amount parses, in order.
RECURSIVE Parseable(_)
Parseable(entries) ==
    IF entries = <<>> THEN <<>>
    ELSE IF Parses(Head(entries)) THEN <<Head(entries)>> \o Parseable(Tail(entries))
    ELSE Parseable(Tail(entries))

RECURSIVE SumValues(_)
\* The sum of the totals of a Record<string, number>.
SumValues(obj) ==
    IF obj = <<>> THEN Fin(0) ELSE Plus(Head(obj).value, SumValues(Tail(obj)))

-----------------------------------------------------------------------------
(* C1, C4, C5: the totals *)

\* C1: an entry whose amount does not parse to a number contributes 0 to the
\* total of its who and 0 to the grand total: the page's totals and grand
\* total are those of the entries whose amount parses.
C1_MalformedAmountContributesZero ==
    page.rendered =>
        /\ page.totals = totals(Parseable(loaderData.ledgerData))
        /\ page.totalAmount = totalAmount(Parseable(loaderData.ledgerData))

\* C4: the totals have exactly the roster names as keys, in roster order,
\* each mapped to the sum of the best-effort amounts of the entries whose who
\* is that name (0 when there is none).
C4_TotalsPerRosterName ==
    page.rendered =>
        /\ Len(page.totals) = Len(people)
        /\ \A i \in 1..Len(people) :
              /\ page.totals[i].key = people[i]
              /\ page.totals[i].value =
                     Fin(SumWhere(loaderData.ledgerData,
                                  EntriesOf(loaderData.ledgerData, people[i])))

\* C5: the grand total is the sum of the best-effort amounts of all
\* entries, and the grand total less the sum of the roster totals is the
\* sum of the amounts of the entries whose who is not in the roster.
C5_GrandTotalCountsEveryEntry ==
    page.rendered =>
        /\ page.totalAmount =
               Fin(SumWhere(loaderData.ledgerData, 1..Len(loaderData.ledgerData)))
        /\ Plus(page.totalAmount, Negate(SumValues(page.totals))) =
               Fin(SumWhere(loaderData.ledgerData, Unmatched(loaderData.ledgerData)))

-----------------------------------------------------------------------------
(* C2, C3, C7, C8: reading the table *)

\* C2: after a read, every data row with an empty or missing date, amount
\* or who is kept out of the entries and has exactly one RowError, which
\* holds one field error for each of its empty required fields.
C2_OneRowErrorPerInvalidRow ==
    ReadSucceeded =>
        /\ \A i \in 1..Len(DataRowsOf(sheet)) :
              EmptyRequired(DataRowsOf(sheet)[i]) # {} =>
                  /\ Cardinality(ErrorsOfRow(i)) = 1
                  /\ \A k \in ErrorsOfRow(i), f \in EmptyRequired(DataRowsOf(sheet)[i]) :
                        /\ f \in DOMAIN LoggedRowErrors[k].errors.fieldErrors
                        /\ Len(LoggedRowErrors[k].errors.fieldErrors[f]) = 1
        /\ Len(loaderData.ledgerData) + Len(LoggedRowErrors) = Len(DataRowsOf(sheet))

\* A read met a row with no cell at all: one RowError, three field errors.
C2_Witness ==
    /\ ReadSucceeded
    /\ \E i \in 1..Len(DataRowsOf(sheet)) :
          /\ DataRowsOf(sheet)[i] = <<>>
          /\ \E k \in ErrorsOfRow(i) :
                DOMAIN LoggedRowErrors[k].errors.fieldErrors = RequiredColumns

\* C3 as stated: a read logs nothing, and hands the RowErrors of its
\* invalid rows to its caller with the entries.
C3_ErrorsReturnedNothingLogged ==
    ReadSucceeded =>
        /\ console = <<>>
        /\ (\E i \in 1..Len(DataRowsOf(sheet)) : ~IsValidRow(DataRowsOf(sheet)[i]))
              => "parsingErrors" \in DOMAIN loaderData

\* C3 as amended: a read hands its caller the entries and nothing else;
\* the RowErrors go to one console.warn, made when some row is invalid and
\* holding one RowError for each invalid row, and to nothing otherwise.
C3_ErrorsLoggedNotReturned ==
    ReadSucceeded =>
        /\ DOMAIN loaderData = {"ledgerData", "error"}
        /\ loaderData.error = NoError
        /\ IF \E i \in 1..Len(DataRowsOf(sheet)) : ~IsValidRow(DataRowsOf(sheet)[i])
           THEN /\ Len(console) = 1
                /\ console[1].level = "warn"
                /\ Len(console[1].data) =
                       Len(DataRowsOf(sheet)) - Cardinality(ValidIndexes(DataRowsOf(sheet)))
           ELSE console = <<>>

\* A read of a table with a valid and an invalid row has logged a warning.
C3_Witness ==
    /\ ReadSucceeded
    /\ Len(loaderData.ledgerData) > 0
    /\ Len(console) = 1
    /\ console[1].level = "warn"

\* C7: when the source answers, the read returns normally whatever the
\* data rows hold: no error for the caller, none logged, and as many
\* entries as there are valid rows.
C7_InvalidRowsNeverFailTheRead ==
    ReadSucceeded =>
        /\ loaderData.error = NoError
        /\ \A k \in 1..Len(console) : console[k].level # "error"
        /\ Len(loaderData.ledgerData) = Cardinality(ValidIndexes(DataRowsOf(sheet)))

\* A read returned its one valid row among two invalid ones.
C7_Witness ==
    /\ ReadSucceeded
    /\ Len(DataRowsOf(sheet)) = 3
    /\ Len(loaderData.ledgerData) = 1
    /\ Len(LoggedRowErrors) = 2

\* C8: the entries are the valid data rows in their order: the k-th entry
\* holds the cells of the k-th valid row.
C8_EntriesInRowOrder ==
    ReadSucceeded =>
        /\ Len(loaderData.ledgerData) = Cardinality(ValidIndexes(DataRowsOf(sheet)))
        /\ \A k \in 1..Len(loaderData.ledgerData) :
              LET row == DataRowsOf(sheet)[KthValid(DataRowsOf(sheet), k)]
                  entry == loaderData.ledgerData[k]
              IN  /\ entry.Date = parseDate(row[1])
                  /\ entry.Amount = row[2]
                  /\ entry.Who = row[3]
                  /\ entry.Notes = Cell(row, 3)

\* A read returned two different valid rows that have an invalid row
\* between them.
C8_Witness ==
    /\ ReadSucceeded
    /\ Len(DataRowsOf(sheet)) = 3
    /\ ValidIndexes(DataRowsOf(sheet)) = {1, 3}
    /\ Len(loaderData.ledgerData) = 2
    /\ loaderData.ledgerData[1] # loaderData.ledgerData[2]

-----------------------------------------------------------------------------
(* C6, C10: failures and appends *)

\* What a read of the table `rows` is to return: an entry for each valid
\* data row, in order.
ExpectedEntries(rows) ==
    [k \in 1..Cardinality(ValidIndexes(DataRowsOf(rows))) |->
        LET row == DataRowsOf(rows)[KthValid(DataRowsOf(rows), k)]
        IN  [Date |-> parseDate(row[1]), Amount |-> row[2], Who |-> row[3],
             Notes |-> Cell(row, 3)]]

\* One step of a handler: a failure of the source gives the caller one
\* error and leaves the table as it was, and a read the source answers
\* returns the valid entries of the table whatever failed before it.
FailureLeavesNothing ==
    /\ (pc' = "render" /\ source' # "ok") =>
          /\ sheet' = sheet
          /\ loaderData'.ledgerData = <<>>
          /\ loaderData'.error # NoError
    /\ (pc' = "revalidate" /\ source' # "ok" /\ NewDate(request'.date).valid) =>
          ~actionData'.success
    /\ (pc' = "revalidate" /\ ~actionData'.success) =>
          /\ sheet' = sheet
          /\ actionData'.error # NoError
    /\ (pc' = "render" /\ source' = "ok") =>
          loaderData' = [ledgerData |-> ExpectedEntries(sheet), error |-> NoError]

\* C6: a failure of the source during a read or an append is one failure
\* for the caller of that operation and leaves no state behind: the next
\* operation finds the table, and answers, as if it had not been issued.
C6_SourceFailureLeavesNoState == [][FailureLeavesNothing]_vars

\* An append failed at the source, and the read after it returned the
\* entries of the table.
C6_Witness ==
    /\ ReadSucceeded
    /\ NewDate(request.date).valid
    /\ ~actionData.success
    /\ Len(loaderData.ledgerData) > 0
    /\ loaderData.ledgerData = ExpectedEntries(sheet)

\* The calendar date a form's date names.
FormDate(date) ==
    [year |-> DigitsValue(date, 1, 4), month |-> DigitsValue(date, 6, 7),
     day |-> DigitsValue(date, 9, 10)]

\* An entry read back is the row the form asked for.
ReadsBack(entry, formData) ==
    /\ entry.Amount = formData.amount
    /\ entry.Who = formData.who
    /\ (IF entry.Notes = Undefined THEN <<>> ELSE entry.Notes) = formData.notes
    /\ LocalDate(entry.Date) = FormDate(formData.date)

\* A successful append adds, to what a read returns, one last entry: the
\* row of the form.
AppendIsReadBack ==
    (pc' = "revalidate" /\ actionData'.success) =>
        /\ Len(ParseRows(valuesGet(sheet')).parsedEntries) =
               Len(ParseRows(valuesGet(sheet)).parsedEntries) + 1
        /\ SubSeq(ParseRows(valuesGet(sheet')).parsedEntries, 1,
                  Len(ParseRows(valuesGet(sheet)).parsedEntries)) =
               ParseRows(valuesGet(sheet)).parsedEntries
        /\ ReadsBack(ParseRows(valuesGet(sheet')).parsedEntries[
                         Len(ParseRows(valuesGet(sheet)).parsedEntries) + 1],
                     request')

\* C10: whatever the table holds, an empty table included, the rows
\* appended with a valid date, an amount and a who are read back, one
\* entry each, after the entries already there, with the same amount, who,
\* notes and calendar date.
C10_AppendedRowsAreReadBack == [][AppendIsReadBack]_vars

-----------------------------------------------------------------------------
(* C9: the percentages *)

\* p is 100 * t / g rounded to a nearest integer.
IsNearest(p, t, g) ==
    /\ p.kind = "finite"
    /\ p.v % 100 = 0
    /\ 2 * Abs((p.v \div 100) * g.v - 100 * t.v) <= Abs(g.v)

\* C9 as stated: each percentage of the summary table is its total over
\* the grand total, times 100, rounded to the nearest integer, and is NaN
\* when the grand total is 0.
C9_PercentageNaNOnZeroGrandTotal ==
    page.table =>
        \A i \in 1..Len(page.totals) :
            /\ (page.totalAmount.v # 0 /\ page.totals[i].value.kind = "finite") =>
                  IsNearest(page.percentages[i], page.totals[i].value, page.totalAmount)
            /\ page.totalAmount.v = 0 => page.percentages[i].kind = "NaN"

\* C9 as amended: with a grand total of 0 the percentage is no finite
\* number, so never 0: NaN when the total is 0 or NaN, and an infinity with
\* the sign of the total when it is any other number.
C9_PercentageNotFiniteOnZeroGrandTotal ==
    page.table =>
        \A i \in 1..Len(page.totals) :
            /\ (page.totalAmount.v # 0 /\ page.totals[i].value.kind = "finite") =>
                  IsNearest(page.percentages[i], page.totals[i].value, page.totalAmount)
            /\ page.totalAmount.v = 0 =>
                  /\ page.percentages[i].kind # "finite"
                  /\ page.percentages[i].kind = "NaN" <=>
                        (page.totals[i].value.kind = "NaN" \/ page.totals[i].value.v = 0)
                  /\ page.percentages[i].kind = "Infinity" =>
                        page.percentages[i].v = Sign(page.totals[i].value.v)

\* The summary table of entries that all amount to zero: every
\* percentage is NaN.
C9_Witness ==
    /\ page.table
    /\ page.totalAmount = Fin(0)
    /\ \E k \in 1..Len(loaderData.ledgerData) :
          formattedAmountToNumber(loaderData.ledgerData[k].Amount) = Fin(0)
    /\ \A i \in 1..Len(page.totals) :
          page.totals[i].value = Fin(0) /\ page.percentages[i].kind = "NaN"

=============================================================================
